---- MODULE Spec2Model ----
(***************************************************************************)
(* A model of rice.py: a command-line client of a satellite-imagery        *)
(* catalogue.  It builds a search URL, issues one search GET, parses the   *)
(* Atom feed into Products, and lists, renders (KML) or downloads them.    *)
(*                                                                         *)
(* Python strings are modelled as sequences of one-character strings, so   *)
(* that str.replace, str.split, str.join, str.lower, urllib.parse.quote    *)
(* and the footprint regular expression are computed character by          *)
(* character, the way the interpreter computes them.                       *)
(***************************************************************************)
EXTENDS Integers, Sequences, FiniteSets, TLC

VARIABLES
    fn,         \* pure-function harness: which function was applied ("none" before)
    fn_arg,     \* its argument(s)
    fn_out,     \* its result
    pc,         \* position of the process in main() / Product.download
    run,        \* number of process invocations started so far
    args,       \* parsed command line of the current invocation
    http,       \* the HTTP GETs issued by the current invocation, in order
    products,   \* the ProductList built by __get_products (NoList before)
    prod,       \* the Product whose download() is running
    path,       \* destination_file_path of the running download()
    existed,    \* whether the target file existed when download() was called
    fs_at_call, \* the file system when download() was called
    fs,         \* the file system: path -> file content (persists across runs)
    buffer,     \* the bytes written to the open target file and not yet flushed
    stdout,     \* what the current invocation printed on standard output
    stderr,     \* what the current invocation wrote on standard error, in order:
                \* the lines of print() and the operations of the tqdm bars
    ret,        \* return value of download() (NoValue before it returns)
    error,      \* the uncaught exception that ended the invocation, if any
    resp,       \* the HTTP responses the current invocation received
    last_call,  \* history: the download() call of the latest earlier run that made one
    origin      \* history: path -> the body response last streamed to that path

vars == <<fn, fn_arg, fn_out, pc, run, args, http, products, prod, path,
          existed, fs_at_call, fs, buffer, stdout, stderr, ret, error, resp,
          last_call, origin>>

fn_vars == <<fn, fn_arg, fn_out>>
main_vars == <<pc, run, args, http, products, prod, path, existed, fs_at_call,
               fs, buffer, stdout, stderr, ret, error, resp, last_call, origin>>

----------------------------------------------------------------------------
(* Characters and strings *)

Range(s) == {s[i] : i \in 1..Len(s)}

\* chr(32) .. chr(126), in code order (the grave accent, chr(96), is written
\* "GRAVE": the parser does not read it inside a string)
Ascii == <<" ","!","\"","#","$","%","&","'","(",")","*","+",",","-",".","/","0","1","2","3","4","5","6","7","8","9",":",";","<","=",">","?","@","A","B","C","D","E","F","G","H","I","J","K","L","M","N","O","P","Q","R","S","T","U","V","W","X","Y","Z","[","\\","]","^","_","GRAVE","a","b","c","d","e","f","g","h","i","j","k","l","m","n","o","p","q","r","s","t","u","v","w","x","y","z","{","|","}","~">>

Ord(c) == 31 + (CHOOSE i \in 1..Len(Ascii) : Ascii[i] = c)

\* a code outside the printable ASCII range has no character in this model
Chr(n) == IF n - 31 \in 1..Len(Ascii) THEN Ascii[n - 31] ELSE "<?>"

UpperLetters == Range(<<"A","B","C","D","E","F","G","H","I","J","K","L","M","N","O","P","Q","R","S","T","U","V","W","X","Y","Z">>)
LowerLetters == Range(<<"a","b","c","d","e","f","g","h","i","j","k","l","m","n","o","p","q","r","s","t","u","v","w","x","y","z">>)
Digits == <<"0","1","2","3","4","5","6","7","8","9">>
DigitSet == Range(Digits)

StartsWith(s, p) == Len(p) <= Len(s) /\ SubSeq(s, 1, Len(p)) = p
EndsWith(s, p) == Len(p) <= Len(s) /\ SubSeq(s, Len(s) - Len(p) + 1, Len(s)) = p
DropFirst(s, n) == SubSeq(s, n + 1, Len(s))
Contains(s, p) == \E i \in 0..(Len(s) - Len(p)) : SubSeq(s, i + 1, i + Len(p)) = p

\* str.lower() on ASCII text
lower_char(c) == IF c \in UpperLetters THEN Chr(Ord(c) + 32) ELSE c
lower(s) == [i \in 1..Len(s) |-> lower_char(s[i])]

\* the first position >= from at which pattern p occurs in s, or 0
find_from(s, p, from) ==
    LET At == {i \in from..(Len(s) - Len(p) + 1) : SubSeq(s, i, i + Len(p) - 1) = p}
    IN  IF At = {} THEN 0 ELSE CHOOSE i \in At : \A j \in At : i <= j

\* str.replace(old, new): every non-overlapping occurrence, left to right
RECURSIVE replace_from(_, _, _, _)
replace_from(s, old, new, from) ==
    LET i == find_from(s, old, from)
    IN  IF i = 0 THEN SubSeq(s, from, Len(s))
        ELSE SubSeq(s, from, i - 1) \o new \o replace_from(s, old, new, i + Len(old))
replace(s, old, new) == replace_from(s, old, new, 1)

\* str.split(sep)
RECURSIVE split_from(_, _, _)
split_from(s, sep, from) ==
    LET i == find_from(s, sep, from)
    IN  IF i = 0 THEN << SubSeq(s, from, Len(s)) >>
        ELSE << SubSeq(s, from, i - 1) >> \o split_from(s, sep, i + Len(sep))
split(s, sep) == split_from(s, sep, 1)

\* the concatenation of a sequence of strings
RECURSIVE concat_all(_)
concat_all(ss) ==
    IF Len(ss) = 0 THEN <<>>
    ELSE IF Len(ss) = 1 THEN ss[1]
    ELSE LET h == Len(ss) \div 2
         IN  concat_all(SubSeq(ss, 1, h)) \o concat_all(SubSeq(ss, h + 1, Len(ss)))

\* sep.join(items)
RECURSIVE join(_, _)
join(sep, items) ==
    IF items = <<>> THEN <<>>
    ELSE IF Len(items) = 1 THEN items[1]
    ELSE items[1] \o sep \o join(sep, Tail(items))

\* str(n) for an int
RECURSIVE nat_str(_)
nat_str(n) == IF n < 10 THEN <<Digits[n + 1]>>
              ELSE nat_str(n \div 10) \o <<Digits[(n % 10) + 1]>>
int_str(n) == IF n < 0 THEN <<"-">> \o nat_str(-n) ELSE nat_str(n)

\* int(s) for a text of decimal digits
RECURSIVE to_int(_)
to_int(s) ==
    LET digit(c) == (CHOOSE i \in 1..10 : Digits[i] = c) - 1
    IN  IF Len(s) = 1 THEN digit(s[1])
        ELSE 10 * to_int(SubSeq(s, 1, Len(s) - 1)) + digit(s[Len(s)])

\* A float that is a multiple of 0.5 is held as its number of halves h
\* (x = h / 2); on these values float + and - are exact.  str(x):
float_str(h) ==
    LET a == IF h < 0 THEN -h ELSE h
    IN  (IF h < 0 THEN <<"-">> ELSE <<>>)
        \o nat_str(a \div 2) \o <<".">> \o (IF a % 2 = 0 THEN <<"0">> ELSE <<"5">>)
float_add(h, n) == h + 2 * n

----------------------------------------------------------------------------
(* urllib.parse.quote(string), safe='/' *)

AlwaysSafe == UpperLetters \cup LowerLetters \cup DigitSet \cup Range(<<"_",".","-","~">>)
HexUpper == <<"0","1","2","3","4","5","6","7","8","9","A","B","C","D","E","F">>

quote_char(c) ==
    IF c \in AlwaysSafe \cup {"/"} THEN <<c>>
    ELSE <<"%", HexUpper[(Ord(c) \div 16) + 1], HexUpper[(Ord(c) % 16) + 1]>>

quote(s) == concat_all([i \in 1..Len(s) |-> quote_char(s[i])])

----------------------------------------------------------------------------
(* Search.__get_products: the request URL.  An options dict is the        *)
(* sequence of its (key, value) items in iteration order, keys distinct.   *)

query_separator_no_space == <<" ","A","N","D">>
query_separator == <<" ","A","N","D"," ">>

query(options) ==
    join(query_separator,
         [i \in 1..Len(options) |-> options[i][1] \o <<":">> \o options[i][2]])

base_url == <<"h","t","t","p","s",":","/","/","s","c","i","h","u","b",".","c","o","p","e","r","n","i","c","u","s",".","e","u","/","d","h","u","s","/","s","e","a","r","c","h","?","s","t","a","r","t","=","0","&","r","o","w","s","=","1","0","0","&","q","=">>

request_url(options) == base_url \o quote(query(options))

\* Search.search_identifier
identifier_options(identifier) == << <<<<"i","d","e","n","t","i","f","i","e","r">>, identifier>> >>

----------------------------------------------------------------------------
(* Search.search_position *)

BoxHalfSide == 5
DefaultDaysBack == 7

footprint_lat_lon(lat, lon) ==
    LET min_lat == float_str(float_add(lat, -BoxHalfSide))
        min_lon == float_str(float_add(lon, -BoxHalfSide))
        max_lat == float_str(float_add(lat, BoxHalfSide))
        max_lon == float_str(float_add(lon, BoxHalfSide))
    IN  <<"P","O","L","Y","G","O","N","(","(">>
        \o max_lat \o <<" ">> \o min_lon \o <<","," ">>
        \o max_lat \o <<" ">> \o max_lon \o <<","," ">>
        \o min_lat \o <<" ">> \o max_lon \o <<","," ">>
        \o min_lat \o <<" ">> \o min_lon \o <<","," ">>
        \o max_lat \o <<" ">> \o min_lon \o <<")",")">>

footprint_box(lat, lon) ==
    LET min_lat == float_str(float_add(lat, -BoxHalfSide))
        min_lon == float_str(float_add(lon, -BoxHalfSide))
        max_lat == float_str(float_add(lat, BoxHalfSide))
        max_lon == float_str(float_add(lon, BoxHalfSide))
    IN  <<"P","O","L","Y","G","O","N","(","(">>
        \o min_lon \o <<" ">> \o max_lat \o <<","," ">>
        \o max_lon \o <<" ">> \o max_lat \o <<","," ">>
        \o max_lon \o <<" ">> \o min_lat \o <<","," ">>
        \o min_lon \o <<" ">> \o min_lat \o <<","," ">>
        \o min_lon \o <<" ">> \o max_lat \o <<")",")">>

position_options(lat, lon, days_back) ==
    << <<<<"i","n","g","e","s","t","i","o","n","d","a","t","e">>, <<"[","N","O","W","-">> \o int_str(days_back) \o <<"D","A","Y","S"," ","T","O"," ","N","O","W","]">>>>,
       <<<<"f","o","o","t","p","r","i","n","t">>, <<"\"","I","n","t","e","r","s","e","c","t","s","(">> \o footprint_box(lat, lon) \o <<")","\"">>>>,
       <<<<"p","r","o","d","u","c","t","T","y","p","e">>, <<"G","R","D">>>> >>

\* search_position(position, days_back=7); days is <<>> when the caller
\* leaves days_back out, <<d>> otherwise
search_position(lat, lon, days) ==
    position_options(lat, lon, IF days = <<>> THEN DefaultDaysBack ELSE days[1])

----------------------------------------------------------------------------
(* Product.download: the target file name and path (lines 47-48) *)

\* None and the exceptions are one-element sequences, which no string of
\* one-character elements equals
NoValue == <<"None">>
KeyError == <<"KeyError">>

target_filename(filename) == replace(filename, <<".","S","A","F","E">>, <<".","z","i","p">>)

destination_file_path(destination_path, filename) ==
    destination_path \o <<"/">> \o target_filename(filename)

----------------------------------------------------------------------------
(* Product.to_kml: the ring coordinates (lines 104-105) *)

\* re.match(r".*\(\((.*)\)\)", s): both .* are greedy, so the match takes the
\* last "((" that still has a "))" after it, and then the last "))".
\* The result is the pair <<i, j>> of the positions of "((" and "))", or
\* <<>> when the pattern does not match (re.match returns None).
footprint_match(s) ==
    LET Opens == {i \in 1..(Len(s) - 1) :
                     /\ s[i] = "(" /\ s[i + 1] = "("
                     /\ \E j \in (i + 2)..(Len(s) - 1) : s[j] = ")" /\ s[j + 1] = ")"}
    IN  IF Opens = {} THEN <<>>
        ELSE LET i == CHOOSE x \in Opens : \A y \in Opens : y <= x
                 Closes == {j \in (i + 2)..(Len(s) - 1) : s[j] = ")" /\ s[j + 1] = ")"}
                 j == CHOOSE x \in Closes : \A y \in Closes : y <= x
             IN  <<i, j>>

AttributeError == <<"AttributeError">>

coordinates(footprint) ==
    LET m == footprint_match(footprint)
    IN  IF m = <<>> THEN AttributeError
        ELSE LET cords == split(SubSeq(footprint, m[1] + 2, m[2] - 1), <<",">>)
             IN  join(<<" ">>, [k \in 1..Len(cords) |->
                                 replace(cords[k], <<" ">>, <<",">>) \o <<",","0">>])

----------------------------------------------------------------------------
(* Inputs of the pure functions *)

MaxPairs == 2
MaxDays == 10

OptionKeys == { <<"i","d","e","n","t","i","f","i","e","r">>, <<"p","r","o","d","u","c","t","T","y","p","e">>, <<"A","N","D"," ">>, <<"p"," ","A","N","D"," ","q">>, <<"k">> }

OptionValues ==
    { <<"S","1","A","_","T","E","S","T">>, <<"G","R","D">>, <<>>, <<"a"," ","A","N","D"," ","b">>, <<"x"," ","A","N","D">>,
      <<"[","N","O","W","-","7","D","A","Y","S"," ","T","O"," ","N","O","W","]">>, <<"\"","I","n","t","e","r","s","e","c","t","s","(","P","O","L","Y","G","O","N","(","(","1","0",".","0"," ","6","7",".","0",","," ","2","0",".","0"," ","6","7",".","0",")",")",")","\"">>,
      <<"5","0","%","&","q","=","#","/","~","%","4","1">> }

OptionItems == OptionKeys \X OptionValues

\* dicts of at most MaxPairs items: sequences of items with distinct keys
RECURSIVE OptionMapsOfLen(_)
OptionMapsOfLen(n) ==
    IF n = 0 THEN { <<>> }
    ELSE { Append(m, it) : m \in OptionMapsOfLen(n - 1), it \in OptionItems }

DistinctKeys(m) == \A i, j \in 1..Len(m) : i # j => m[i][1] # m[j][1]

OptionMaps ==
    UNION { { m \in OptionMapsOfLen(n) : DistinctKeys(m) } : n \in 0..MaxPairs }

\* latitudes and longitudes, in halves of a degree (124 is 62.0)
Latitudes == { -180, -11, -10, 0, 9, 10, 124, 125 }
Longitudes == { -360, -10, 1, 30, 350 }
DaysBack == -1..MaxDays

Filenames ==
    { <<"S","1","A","_","T","E","S","T",".","S","A","F","E">>, <<"S","1","A","_","T","E","S","T",".","z","i","p">>, <<"S","1","A",".","S","A","F","E",".","S","A","F","E">>, <<"a",".","S","A","F","E",".","b","a","k">>,
      <<"n","o","e","x","t">>, <<".","S","A","F","E">>, <<"x",".","s","a","f","e">>, <<"S","1","B",".","S","A","F","E","a",".","S","A","F","E">> }

Destinations == { <<".">>, <<"o","u","t">>, <<"/","t","m","p","/","d">> }

Footprints ==
    { <<"P","O","L","Y","G","O","N","(","(","1","0"," ","6","0",",","1","1"," ","6","0",",","1","1"," ","6","1",",","1","0"," ","6","1",",","1","0"," ","6","0",")",")">>,
      <<"P","O","L","Y","G","O","N","(","(","-","1",".","5"," ","6","0",".","2","5",",","1","1"," ","6","0",",","-","1",".","5"," ","6","0",".","2","5",")",")">>,
      <<"P","O","L","Y","G","O","N","(","(","1"," ","2",")",")">>,
      <<"P","O","L","Y","G","O","N"," ","(","(","1","0"," ","6","0",",","1","1"," ","6","0",",","1","0"," ","6","0",")",")">>,
      <<"P","O","L","Y","G","O","N","(","(","1","0"," ","6","0",","," ","1","1"," ","6","0",","," ","1","0"," ","6","0",")",")">>,
      <<"P","O","L","Y","G","O","N","(","(","1","0"," ","6","0",",","1","1"," ","6","0",")",",","(","1"," ","2",",","3"," ","4",")",")">>,
      <<"M","U","L","T","I","P","O","L","Y","G","O","N","(","(","(","1","0"," ","6","0",",","1","1"," ","6","0",",","1","0"," ","6","0",")",")",")">>,
      <<"M","U","L","T","I","P","O","L","Y","G","O","N","(","(","(","1"," ","2",",","3"," ","4",")",")",",","(","(","5"," ","6",",","7"," ","8",")",")",")">>,
      <<"P","O","L","Y","G","O","N","(","(","1","0"," ","6","0",",","1","1"," ","6","0",")",")"," ","t","r","a","i","l","i","n","g">>,
      <<"g","a","r","b","a","g","e","(","(","x",")",")">>,
      <<"P","O","L","Y","G","O","N","(","(",")",")">>,
      <<"P","O","L","Y","G","O","N","(","1","0"," ","6","0",",","1","1"," ","6","0",")">>,
      <<"P","O","I","N","T","(","1","0"," ","6","0",")">>,
      <<"P","O","L","Y","G","O","N","(","(","1","0"," ","6","0",",","1","1"," ","6","0",")">>,
      <<>> }

----------------------------------------------------------------------------
(* The pure functions applied to every input *)

InitFn ==
    /\ fn = "none" /\ fn_arg = NoValue /\ fn_out = NoValue

ApplyRequestUrl ==
    /\ fn = "none"
    /\ UNCHANGED main_vars
    /\ \E options \in OptionMaps :
          /\ fn' = "request_url"
          /\ fn_arg' = options
          /\ fn_out' = request_url(options)

ApplySearchPosition ==
    /\ fn = "none"
    /\ UNCHANGED main_vars
    /\ \E lat \in Latitudes, lon \in Longitudes,
          days \in { <<>> } \cup { <<d>> : d \in DaysBack } :
          /\ fn' = "search_position"
          /\ fn_arg' = [lat |-> lat, lon |-> lon, days |-> days]
          /\ fn_out' = search_position(lat, lon, days)

ApplyDownloadPath ==
    /\ fn = "none"
    /\ UNCHANGED main_vars
    /\ \E filename \in Filenames, destination_path \in Destinations :
          /\ fn' = "download_path"
          /\ fn_arg' = [filename |-> filename, destination_path |-> destination_path]
          /\ fn_out' = destination_file_path(destination_path, filename)

ApplyCoordinates ==
    /\ fn = "none"
    /\ UNCHANGED main_vars
    /\ \E footprint \in Footprints :
          /\ fn' = "coordinates"
          /\ fn_arg' = footprint
          /\ fn_out' = coordinates(footprint)

----------------------------------------------------------------------------
(* md5(fname): the hex digest of a file's content.  The model holds the   *)
(* digests of the contents it uses.                                        *)

EmptyContent == <<>>
TruncatedContent == <<"a">>
FullContent == <<"a","b">>
Contents == { EmptyContent, TruncatedContent, FullContent }

hexdigest(content) ==
    CASE content = EmptyContent     -> <<"d","4","1","d","8","c","d","9","8","f","0","0","b","2","0","4","e","9","8","0","0","9","9","8","e","c","f","8","4","2","7","e">>
      [] content = TruncatedContent -> <<"0","c","c","1","7","5","b","9","c","0","f","1","b","6","a","8","3","1","c","3","9","9","e","2","6","9","7","7","2","6","6","1">>
      [] content = FullContent      -> <<"1","8","7","e","f","4","4","3","6","1","2","2","d","1","c","c","2","f","4","0","d","c","2","b","9","2","f","0","e","b","a","0">>

FileNotFoundError == <<"FileNotFoundError">>

----------------------------------------------------------------------------
(* Standard error.  print(..., file=sys.stderr) writes a line; a tqdm bar  *)
(* draws on sys.stderr when it is constructed, when it is updated and when *)
(* it is closed.  The characters a bar draws depend on the clock and the   *)
(* terminal; the model records the operation, its description and its      *)
(* number (the total on open, the increment on update).                    *)

Line(text) == [writer |-> "print", op |-> "line", text |-> text, n |-> 0]
BarOpen(desc, total) == [writer |-> "tqdm", op |-> "open", text |-> desc, n |-> total]
BarUpdate(desc, n) == [writer |-> "tqdm", op |-> "update", text |-> desc, n |-> n]
BarClose(desc) == [writer |-> "tqdm", op |-> "close", text |-> desc, n |-> 0]

\* lines 14-23: md5() reads the file in chunks of ReadSize bytes under a bar
\* whose total is the file size
ReadSize == 4096
md5_desc == <<"C","a","l","c","u","l","a","t","i","n","g"," ","m","d","5">>
md5_bar(content) ==
    LET size == Len(content)
        reads == (size + ReadSize - 1) \div ReadSize
    IN  << BarOpen(md5_desc, size) >>
        \o [k \in 1..reads |->
              BarUpdate(md5_desc, IF k < reads THEN ReadSize
                                  ELSE size - (reads - 1) * ReadSize)]
        \o << BarClose(md5_desc) >>

\* md5(fname) on file system fsys
md5(fsys, fname) ==
    IF fname \in DOMAIN fsys THEN hexdigest(fsys[fname]) ELSE FileNotFoundError

----------------------------------------------------------------------------
(* The file system *)

\* not os.path.isfile(destination_file_path)
file_missing_always(fsys, p) == TRUE
file_missing_never(fsys, p) == FALSE
file_missing(fsys, p) == p \notin DOMAIN fsys

Put(f, k, v) == [x \in (DOMAIN f) \cup {k} |-> IF x = k THEN v ELSE f[x]]

\* open(destination_file_path, 'wb'): creates or truncates the file
open_wb(fsys, p) == Put(fsys, p, EmptyContent)

\* line 58: f.write(data) appends to the buffer of the file object; the bytes
\* reach the file when the buffer fills (it does not, for the bodies of this
\* model) or when the file is closed
write_chunk(buf, data) == buf \o data

\* lines 52-59: the file when the with-block is left, by the end of the body
\* or by an exception: closed, the buffer flushed.  The response r is at hand
\* and its status is not read.
write_only_ok(fsys, p, r, buf) ==
    IF r.status = 200 THEN Put(fsys, p, fsys[p] \o buf) ELSE fsys
write_body(fsys, p, r, buf) == Put(fsys, p, fsys[p] \o buf)

----------------------------------------------------------------------------
(* The feed document and Product.__init__ *)

\* an element without a name attribute has name NoName; a link without an
\* href has href NoValue
NoName == "<no name>"

Child(tag, name, text, href) ==
    [tag |-> tag, name |-> name, text |-> text, href |-> href]

AtomId(text) == Child("atom:id", NoName, text, NoValue)
AtomLink(href) == Child("atom:link", NoName, <<>>, href)
AtomTitle == Child("atom:title", NoName, <<"t","i","t","l","e">>, NoValue)
Named(tag, name, text) == Child(tag, name, text, NoValue)

Element(tag, children) == [tag |-> tag, children |-> children]

Uuid1 == <<"u","u","i","d","-","1">>
Uuid2 == <<"u","u","i","d","-","2">>
Link1 == <<"h","t","t","p","s",":","/","/","s","c","i","h","u","b",".","c","o","p","e","r","n","i","c","u","s",".","e","u","/","d","h","u","s","/","o","d","a","t","a","/","v","1","/","P","r","o","d","u","c","t","s","(","'","u","u","i","d","-","1","'",")","/","$","v","a","l","u","e">>
Link2 == <<"h","t","t","p","s",":","/","/","s","c","i","h","u","b",".","c","o","p","e","r","n","i","c","u","s",".","e","u","/","d","h","u","s","/","o","d","a","t","a","/","v","1","/","P","r","o","d","u","c","t","s","(","'","u","u","i","d","-","2","'",")","/","$","v","a","l","u","e">>

CommonChildren ==
    << Named("atom:date", "beginposition", <<"2","0","1","6","-","0","1","-","0","1","T","0","0",":","0","0",":","0","0","Z">>),
       Named("atom:date", "endposition", <<"2","0","1","6","-","0","1","-","0","1","T","0","0",":","0","0",":","2","5","Z">>),
       Named("atom:date", "ingestiondate", <<"2","0","1","6","-","0","1","-","0","1","T","0","6",":","0","0",":","0","0","Z">>),
       Named("atom:str", "sensoroperationalmode", <<"I","W">>) >>

\* a complete entry
EntryFull ==
    Element("atom:entry",
        << AtomTitle, AtomLink(Link1), AtomLink(<<"a","l","t","e","r","n","a","t","i","v","e">>), AtomId(Uuid1),
           Named("atom:str", "identifier", <<"S","1","A","_","T","E","S","T">>),
           Named("atom:str", "filename", <<"S","1","A","_","T","E","S","T",".","S","A","F","E">>),
           Named("atom:str", "footprint", <<"P","O","L","Y","G","O","N","(","(","1","0"," ","6","0",",","1","1"," ","6","0",",","1","1"," ","6","1",",","1","0"," ","6","1",",","1","0"," ","6","0",")",")">>) >>
        \o CommonChildren)

\* another product with the same file name; a name attribute given twice
EntryDuplicateName ==
    Element("atom:entry",
        << AtomId(Uuid2), AtomLink(Link2),
           Named("atom:str", "identifier", <<"O","L","D">>),
           Named("atom:str", "identifier", <<"S","1","A","_","T","E","S","T","_","2">>),
           Named("atom:str", "filename", <<"S","1","A","_","T","E","S","T",".","S","A","F","E">>),
           Named("other:str", "footprint", <<"P","O","I","N","T","(","1","0"," ","6","0",")">>) >>
        \o CommonChildren)

\* no identifier, no filename
EntryNoKeys ==
    Element("atom:entry", << AtomLink(Link2), AtomTitle, AtomId(Uuid2) >>)

\* no id element
EntryNoId ==
    Element("atom:entry",
        << AtomLink(Link1), Named("atom:str", "identifier", <<"S","1","A","_","T","E","S","T">>),
           Named("atom:str", "filename", <<"S","1","A","_","T","E","S","T",".","S","A","F","E">>) >>)

\* root children that are no Atom entries
FeedTitle == Element("atom:title", <<>>)
ForeignEntry ==
    Element("other:entry", << AtomId(Uuid1), AtomLink(Link1),
                              Named("atom:str", "identifier", <<"F","O","R","E","I","G","N">>) >>)

RootChildren ==
    { EntryFull, EntryDuplicateName, EntryNoKeys, EntryNoId, FeedTitle,
      ForeignEntry }

MaxRootChildren == 2

RECURSIVE SeqsOfLen(_, _)
SeqsOfLen(S, n) ==
    IF n = 0 THEN { <<>> }
    ELSE { Append(s, x) : s \in SeqsOfLen(S, n - 1), x \in S }

\* the feed documents: the root element's children
Documents == UNION { SeqsOfLen(RootChildren, n) : n \in 0..MaxRootChildren }

\* root.findall('{http://www.w3.org/2005/Atom}entry')
is_entry(e) == e.tag = "atom:entry"
findall_entry(document) == SelectSeq(document, is_entry)

\* entry.find(tag): the first child with that tag, or NoElement (None)
NoElement == [none |-> TRUE]
find(entry, tag) ==
    LET At == {i \in 1..Len(entry.children) : entry.children[i].tag = tag}
    IN  IF At = {} THEN NoElement
        ELSE entry.children[CHOOSE i \in At : \A j \in At : i <= j]

\* {child.attrib['name']: child.text for child in entry if 'name' in child.attrib}
has_any_attribute(child) == TRUE
has_name(child) == child.name # NoName
attributes_of(entry) ==
    LET cs == entry.children
        Names == {cs[i].name : i \in {j \in 1..Len(cs) : has_name(cs[j])}}
    IN  [n \in Names |->
            LET At == {i \in 1..Len(cs) : cs[i].name = n}
            IN  cs[CHOOSE i \in At : \A j \in At : j <= i].text]

\* whether Product(entry, auth) raises
Product_raises(entry) ==
    \/ find(entry, "atom:id") = NoElement
    \/ find(entry, "atom:link") = NoElement
    \/ find(entry, "atom:link").href = NoValue

Product(entry) ==
    [attributes |-> attributes_of(entry),
     id |-> find(entry, "atom:id").text,
     product_link |-> find(entry, "atom:link").href]

NoList == [none |-> TRUE]

\* lines 144-147: the ProductList, or NoList when a Product(...) raises
ProductList(document) ==
    LET entries == findall_entry(document)
    IN  IF \E i \in 1..Len(entries) : Product_raises(entries[i]) THEN NoList
        ELSE [list |-> [i \in 1..Len(entries) |-> Product(entries[i])]]

\* Product.name(): the identifier, or the KeyError raised
name(product) ==
    IF "identifier" \in DOMAIN product.attributes
    THEN product.attributes["identifier"] ELSE KeyError

----------------------------------------------------------------------------
(* Product.to_kml and ProductList.to_kml *)

\* the attribute keys Product.to_kml reads, in the order it reads them
KmlKeys == << "beginposition", "identifier", "beginposition", "endposition",
              "sensoroperationalmode", "beginposition", "endposition",
              "ingestiondate", "footprint" >>

missing_kml_keys(product) ==
    {i \in 1..Len(KmlKeys) : KmlKeys[i] \notin DOMAIN product.attributes}

Raised(e) == [exception |-> e]
IsRaised(x) == "exception" \in DOMAIN x

\* the Folder element of one product, or the exception it raises
to_kml(product) ==
    LET a == product.attributes
        miss == missing_kml_keys(product)
    IN  IF miss # {} THEN Raised("KeyError")
        ELSE IF coordinates(a["footprint"]) = AttributeError
             THEN Raised("AttributeError")
        ELSE [name |-> a["beginposition"],
              placemark |->
                [name |-> a["identifier"],
                 begin |-> a["beginposition"],
                 end |-> a["endposition"],
                 data |-> << <<"Mode", a["sensoroperationalmode"]>>,
                             <<"ObservationTimeStart", a["beginposition"]>>,
                             <<"ObservationTimeStop", a["endposition"]>>,
                             <<"IngestionDate", a["ingestiondate"]>>,
                             <<"Id", product.id>>,
                             <<"DownloadLink", product.product_link>> >>,
                 coordinates |-> coordinates(a["footprint"])]]

\* ProductList.to_kml: the document, or the first exception raised
list_to_kml(list) ==
    LET folders == [i \in 1..Len(list) |-> to_kml(list[i])]
        Bad == {i \in 1..Len(list) : IsRaised(folders[i])}
    IN  IF Bad = {} THEN [kml |-> folders]
        ELSE folders[CHOOSE i \in Bad : \A j \in Bad : i <= j]

----------------------------------------------------------------------------
(* Product.download: the checksum link, the comparison, the warning *)

md5_link(id) ==
    <<"h","t","t","p","s",":","/","/","s","c","i","h","u","b",".","c","o","p","e","r","n","i","c","u","s",".","e","u","/","d","h","u","s","/","o","d","a","t","a","/","v","1","/","P","r","o","d","u","c","t","s","(","'">>
    \o id \o <<"'",")","/","C","h","e","c","k","s","u","m","/","V","a","l","u","e","/","$","v","a","l","u","e">>

\* line 68: actual != expected
checksum_failed_inverted(actual, expected) == actual = expected
checksum_failed(actual, expected) == actual # expected

\* lines 69-70: the text print() writes, without the line end it appends
warning(filename, expected, actual) ==
    <<"m","d","5"," ","c","h","e","c","k","s","u","m"," ","o","f"," ">> \o filename \o <<" ","f","a","i","l","e","d",","," ","e","x","p","e","c","t","e","d","=">> \o expected
    \o <<","," ","a","c","t","u","a","l","=">> \o actual

\* line 140: resp.status_code != 200 is the failure
HttpOk == 200
status_ok_below_400(status) == status < 400
status_ok(status) == status = HttpOk

error_line(status) == <<"E","r","r","o","r",","," ","g","o","t"," ","H","T","T","P"," ","s","t","a","t","u","s"," ","c","o","d","e",":"," ">> \o int_str(status)

----------------------------------------------------------------------------
(* The process: main() *)

MaxRuns == 2

DefaultPosition == <<124, 30>>      \* [62.00, 15.00], in halves of a degree
Positions == { DefaultPosition, <<-10, 1>> }
DownloadIdentifiers == { <<"S","1","A","_","T","E","S","T">>, <<"S","1","A"," ","A","N","D"," ","B">> }

Arguments(mode, position, identifier) ==
    [mode |-> mode, position |-> position, download |-> identifier]

\* the command lines: the first of --list, --kml, --download that is given
\* decides; with none of them main() does nothing
ArgumentSets ==
    { Arguments("list", p, NoValue) : p \in Positions }
    \cup { Arguments("kml", DefaultPosition, NoValue) }
    \cup { Arguments("download", DefaultPosition, i) : i \in DownloadIdentifiers }
    \cup { Arguments("none", DefaultPosition, NoValue) }

\* the options main() searches with (lines 186, 189, 191)
options_of(a) ==
    IF a.mode = "download" THEN identifier_options(a.download)
    ELSE search_position(a.position[1], a.position[2], <<>>)

Get(kind, url) == [kind |-> kind, url |-> url]

Statuses == { 200, 204, 401, 500 }

\* the body response: its status and content-length header (NoValue when
\* the header is absent), and the chunks iter_content yields
BodyStatuses == { 200, 500 }
ContentLengths == { NoValue, <<"2">> }
Chunks == { <<"a">>, <<"b">>, <<"a","b">> }

\* what the process has of a body response: the chunks read so far, and
\* whether the body is unread, streaming, exhausted or broken off
StreamedResponse(status, content_length, chunks, state) ==
    [status |-> status, content_length |-> content_length, chunks |-> chunks,
     state |-> state]

download_desc(filename) == <<"D","o","w","n","l","o","a","d","i","n","g"," ">> \o filename

ChecksumTexts ==
    { <<"1","8","7","e","f","4","4","3","6","1","2","2","d","1","c","c","2","f","4","0","d","c","2","b","9","2","f","0","e","b","a","0">>, <<"1","8","7","E","F","4","4","3","6","1","2","2","D","1","C","C","2","F","4","0","D","C","2","B","9","2","F","0","E","B","A","0">>,
      <<"0","c","c","1","7","5","b","9","c","0","f","1","b","6","a","8","3","1","c","3","9","9","e","2","6","9","7","7","2","6","6","1">>, <<"D","4","1","D","8","C","D","9","8","F","0","0","B","2","0","4","e","9","8","0","0","9","9","8","e","c","f","8","4","2","7","e">> }

NoArguments == [none |-> TRUE]
NoProduct == [none |-> TRUE]
NoError == [none |-> TRUE]
NoCall == [none |-> TRUE]
NoResponses == [search |-> <<>>, body |-> <<>>, checksum |-> <<>>]
NoFiles == <<>>

Exception(type, at) == [type |-> type, at |-> at]

Init ==
    /\ InitFn
    /\ pc = "start"
    /\ run = 0
    /\ args = NoArguments
    /\ http = <<>>
    /\ products = NoList
    /\ prod = NoProduct
    /\ path = NoValue
    /\ existed = FALSE
    /\ fs_at_call = NoFiles
    /\ fs = NoFiles
    /\ buffer = <<>>
    /\ stdout = <<>>
    /\ stderr = <<>>
    /\ ret = NoValue
    /\ error = NoError
    /\ resp = NoResponses
    /\ last_call = NoCall
    /\ origin = NoFiles

\* A process starts (lines 172-191 and 134-138): it parses the command line
\* and issues the search GET.  The file system is what earlier runs left;
\* the download() call of the run that ended becomes the previous call.
Main ==
    /\ pc \in {"start", "done", "exited", "raised"}
    /\ run < MaxRuns
    /\ \E a \in ArgumentSets :
          /\ args' = a
          /\ IF a.mode = "none"
             THEN http' = <<>> /\ pc' = "done"
             ELSE /\ http' = << Get("search", request_url(options_of(a))) >>
                  /\ pc' = "search"
    /\ run' = run + 1
    /\ products' = NoList
    /\ prod' = NoProduct
    /\ path' = NoValue
    /\ existed' = FALSE
    /\ fs_at_call' = NoFiles
    /\ buffer' = <<>>
    /\ stdout' = <<>>
    /\ stderr' = <<>>
    /\ ret' = NoValue
    /\ error' = NoError
    /\ resp' = NoResponses
    /\ last_call' = IF path # NoValue
                    THEN [path |-> path, ret |-> ret, warned |-> \E i \in 1..Len(stderr) : stderr[i].writer = "print"]
                    ELSE last_call
    /\ UNCHANGED <<fs, origin, fn_vars>>

\* lines 138-147: the search response arrives
SearchResponse ==
    /\ pc = "search"
    /\ \E status \in Statuses, document \in Documents :
          IF ~status_ok(status)
          THEN /\ resp' = [resp EXCEPT !.search = << [status |-> status, document |-> <<>>] >>]
               /\ stdout' = Append(stdout, error_line(status))
               /\ pc' = "exited"
               /\ UNCHANGED <<products, error>>
          ELSE /\ resp' = [resp EXCEPT !.search = << [status |-> status, document |-> document] >>]
               /\ IF ProductList(document) = NoList
                  THEN /\ pc' = "raised"
                       /\ error' = Exception("AttributeError or KeyError", "Product.__init__")
                       /\ UNCHANGED products
                  ELSE /\ pc' = "parsed"
                       /\ products' = ProductList(document)
                       /\ UNCHANGED error
               /\ UNCHANGED stdout
    /\ UNCHANGED <<run, args, http, prod, path, existed, fs_at_call, fs, buffer, stderr,
                   ret, last_call, origin, fn_vars>>

\* lines 185-187: print(product.name()) for every product
List ==
    /\ pc = "parsed" /\ args.mode = "list"
    /\ LET names == [i \in 1..Len(products.list) |-> name(products.list[i])]
           Bad == {i \in 1..Len(names) : names[i] = KeyError}
       IN  IF Bad = {}
           THEN stdout' = stdout \o names /\ pc' = "done" /\ UNCHANGED error
           ELSE /\ stdout' = stdout \o SubSeq(names, 1, (CHOOSE i \in Bad : \A j \in Bad : i <= j) - 1)
                /\ pc' = "raised"
                /\ error' = Exception("KeyError", "name")
    /\ UNCHANGED <<run, args, http, products, prod, path, existed, fs_at_call, fs,
                   buffer, stderr, ret, resp, last_call, origin, fn_vars>>

\* lines 188-189: print(search.search_position(...).to_kml())
Kml ==
    /\ pc = "parsed" /\ args.mode = "kml"
    /\ LET document == list_to_kml(products.list)
       IN  IF IsRaised(document)
           THEN /\ pc' = "raised"
                /\ error' = Exception(document.exception, "to_kml")
                /\ UNCHANGED stdout
           ELSE stdout' = Append(stdout, document) /\ pc' = "done" /\ UNCHANGED error
    /\ UNCHANGED <<run, args, http, products, prod, path, existed, fs_at_call, fs,
                   buffer, stderr, ret, resp, last_call, origin, fn_vars>>

\* lines 190-195: download the product when the search found exactly one
MainDownload ==
    /\ pc = "parsed" /\ args.mode = "download"
    /\ IF Len(products.list) = 1
       THEN prod' = products.list[1] /\ pc' = "download" /\ UNCHANGED stdout
       ELSE /\ stdout' = Append(stdout, <<"C","o","u","l","d","n","'","t"," ","f","i","n","d"," ">> \o args.download)
            /\ pc' = "done"
            /\ UNCHANGED prod
    /\ UNCHANGED <<run, args, http, products, path, existed, fs_at_call, fs,
                   buffer, stderr, ret, error, resp, last_call, origin, fn_vars>>

\* lines 47-51 and 61-65: download('.') is entered; it fetches the body when
\* the target file is missing and the checksum otherwise
DownloadBegin ==
    /\ pc = "download"
    /\ IF "filename" \notin DOMAIN prod.attributes
       THEN /\ pc' = "raised"
            /\ error' = Exception("KeyError", "download: filename")
            /\ UNCHANGED <<path, existed, fs_at_call, http>>
       ELSE LET p == destination_file_path(<<".">>, prod.attributes["filename"])
            IN  /\ path' = p
                /\ existed' = (p \in DOMAIN fs)
                /\ fs_at_call' = fs
                /\ IF file_missing(fs, p)
                   THEN /\ http' = Append(http, Get("body", prod.product_link))
                        /\ pc' = "body"
                   ELSE /\ http' = Append(http, Get("checksum", md5_link(prod.id)))
                        /\ pc' = "checksum"
                /\ UNCHANGED error
    /\ UNCHANGED <<run, args, products, prod, fs, buffer, stdout, stderr, ret,
                   resp, last_call, origin, fn_vars>>

\* lines 51-56: requests.get(..., stream=True) returns when the status line
\* and the headers are in.  The file is created (or truncated), then the bar
\* is constructed with the content-length header as its total; without the
\* header that is a KeyError and the file stays empty.  The status of the
\* response is not read.
BodyResponse ==
    /\ pc = "body"
    /\ \E status \in BodyStatuses, content_length \in ContentLengths :
          LET filename == target_filename(prod.attributes["filename"])
              r == StreamedResponse(status, content_length, <<>>,
                                 IF content_length = NoValue THEN "unread"
                                 ELSE "streaming")
          IN  /\ resp' = [resp EXCEPT !.body = <<r>>]
              /\ origin' = Put(origin, path, r)
              /\ fs' = open_wb(fs, path)
              /\ buffer' = <<>>
              /\ IF content_length = NoValue
                 THEN /\ pc' = "raised"
                      /\ error' = Exception("KeyError", "download: content-length")
                      /\ UNCHANGED stderr
                 ELSE /\ pc' = "stream"
                      /\ stderr' = Append(stderr, BarOpen(download_desc(filename),
                                                          to_int(content_length)))
                      /\ UNCHANGED error
    /\ UNCHANGED <<run, args, http, products, prod, path, existed, fs_at_call,
                   stdout, ret, last_call, fn_vars>>

\* lines 57-59: iter_content yields a chunk; it is written to the file object
\* and the bar is updated by the number of bytes written
BodyChunk ==
    /\ pc = "stream"
    /\ \E data \in Chunks :
          LET filename == target_filename(prod.attributes["filename"])
              r == [resp.body[1] EXCEPT !.chunks = Append(@, data)]
          IN  /\ write_chunk(buffer, data) \in Contents
              /\ buffer' = write_chunk(buffer, data)
              /\ stderr' = Append(stderr, BarUpdate(download_desc(filename), Len(data)))
              /\ resp' = [resp EXCEPT !.body = <<r>>]
              /\ origin' = Put(origin, path, r)
    /\ UNCHANGED <<pc, run, args, http, products, prod, path, existed, fs_at_call,
                   fs, stdout, ret, error, last_call, fn_vars>>

\* lines 57-65: the body ends; the with-block is left (the bar closed, the
\* file closed and flushed) and the checksum is requested
BodyEnd ==
    /\ pc = "stream"
    /\ LET filename == target_filename(prod.attributes["filename"])
           r == [resp.body[1] EXCEPT !.state = "exhausted"]
       IN  /\ fs' = write_body(fs, path, r, buffer)
           /\ buffer' = <<>>
           /\ stderr' = Append(stderr, BarClose(download_desc(filename)))
           /\ resp' = [resp EXCEPT !.body = <<r>>]
           /\ origin' = Put(origin, path, r)
           /\ http' = Append(http, Get("checksum", md5_link(prod.id)))
           /\ pc' = "checksum"
    /\ UNCHANGED <<run, args, products, prod, path, existed, fs_at_call, stdout,
                   ret, error, last_call, fn_vars>>

\* line 57: the connection breaks while iter_content waits for the next
\* chunk; iter_content raises requests' ChunkedEncodingError (no timeout is
\* set, so no read timeout occurs); the exception leaves the with-block (the bar closed, the file
\* closed and flushed) and ends the process
BodyBroken ==
    /\ pc = "stream"
    /\ LET filename == target_filename(prod.attributes["filename"])
           r == [resp.body[1] EXCEPT !.state = "broken"]
       IN  /\ fs' = write_body(fs, path, r, buffer)
           /\ buffer' = <<>>
           /\ stderr' = Append(stderr, BarClose(download_desc(filename)))
           /\ resp' = [resp EXCEPT !.body = <<r>>]
           /\ origin' = Put(origin, path, r)
           /\ pc' = "raised"
           /\ error' = Exception("ChunkedEncodingError", "download: iter_content")
    /\ UNCHANGED <<run, args, http, products, prod, path, existed, fs_at_call,
                   stdout, ret, last_call, fn_vars>>

\* lines 65-73: the checksum response arrives; md5() digests the file under
\* its bar, the digest is compared with the response, a mismatch is
\* reported, the path is returned
ChecksumResponse ==
    /\ pc = "checksum"
    /\ \E text \in ChecksumTexts :
          LET expected == lower(text)
              actual == md5(fs, path)
              filename == target_filename(prod.attributes["filename"])
              failed == checksum_failed(actual, expected)
          IN  /\ resp' = [resp EXCEPT !.checksum = <<text>>]
              /\ IF actual = FileNotFoundError
                 THEN /\ pc' = "raised"
                      /\ error' = Exception("FileNotFoundError", "md5")
                      /\ UNCHANGED <<stderr, ret>>
                 ELSE /\ stderr' = stderr \o md5_bar(fs[path])
                                   \o (IF failed
                                       THEN << Line(warning(filename, expected, actual)) >>
                                       ELSE <<>>)
                      /\ ret' = path
                      /\ pc' = "done"
                      /\ UNCHANGED error
    /\ UNCHANGED <<run, args, http, products, prod, path, existed, fs_at_call, fs,
                   buffer, stdout, last_call, origin, fn_vars>>

Next ==
    \/ Main
    \/ SearchResponse
    \/ List
    \/ Kml
    \/ MainDownload
    \/ DownloadBegin
    \/ BodyResponse
    \/ BodyChunk
    \/ BodyEnd
    \/ BodyBroken
    \/ ChecksumResponse

Spec == Init /\ [][Next]_vars

----------------------------------------------------------------------------
(* The pure functions on their own: every input, one application *)

NextFn ==
    \/ ApplyRequestUrl
    \/ ApplySearchPosition
    \/ ApplyDownloadPath
    \/ ApplyCoordinates

SpecFn == Init /\ [][NextFn]_vars

----------------------------------------------------------------------------
(* What the properties are stated with *)

\* equality of two strings up to the case of their letters
SameLetter(a, b) ==
    \/ a = b
    \/ a \in UpperLetters /\ b \in LowerLetters /\ Ord(b) = Ord(a) + 32
    \/ b \in UpperLetters /\ a \in LowerLetters /\ Ord(a) = Ord(b) + 32
EqualIgnoringCase(s, t) ==
    Len(s) = Len(t) /\ \A i \in 1..Len(s) : SameLetter(s[i], t[i])
ContainsIgnoringCase(s, p) ==
    \E i \in 0..(Len(s) - Len(p)) : EqualIgnoringCase(SubSeq(s, i + 1, i + Len(p)), p)

\* percent-decoding (urllib.parse.unquote)
HexDigitsAll == <<"0","1","2","3","4","5","6","7","8","9","A","B","C","D","E","F","a","b","c","d","e","f">>
HexValue(c) ==
    LET i == CHOOSE k \in 1..Len(HexDigitsAll) : HexDigitsAll[k] = c
    IN  IF i <= 16 THEN i - 1 ELSE i - 7
IsEscapeAt(s, i) ==
    /\ i + 2 <= Len(s) /\ s[i] = "%"
    /\ s[i + 1] \in Range(HexDigitsAll) /\ s[i + 2] \in Range(HexDigitsAll)
RECURSIVE unquote_from(_, _)
unquote_from(s, from) ==
    LET At == {i \in from..Len(s) : IsEscapeAt(s, i)}
    IN  IF At = {} THEN SubSeq(s, from, Len(s))
        ELSE LET i == CHOOSE x \in At : \A y \in At : x <= y
             IN  SubSeq(s, from, i - 1)
                 \o << Chr(16 * HexValue(s[i + 1]) + HexValue(s[i + 2])) >>
                 \o unquote_from(s, i + 3)
unquote(s) == unquote_from(s, 1)

\* the value of parameter q of a URL: what follows "q=" up to the next "&" or "#"
QueryPortion(url) ==
    LET q == find_from(url, <<"?">>, 1)
        params == split(split(DropFirst(url, q), <<"#">>)[1], <<"&">>)
        Q == {i \in 1..Len(params) : StartsWith(params[i], <<"q","=">>)}
    IN  DropFirst(params[CHOOSE i \in Q : \A j \in Q : i <= j], 2)

Items(options) ==
    [i \in 1..Len(options) |-> options[i][1] \o <<":">> \o options[i][2]]

\* reading a decimal numeral
IsNumeral(s) == s # <<>> /\ \A i \in 1..Len(s) : s[i] \in DigitSet
DigitValue(c) == (CHOOSE k \in 1..10 : Digits[k] = c) - 1
RECURSIVE NumeralValue(_)
NumeralValue(s) ==
    IF s = <<>> THEN 0
    ELSE 10 * NumeralValue(SubSeq(s, 1, Len(s) - 1)) + DigitValue(s[Len(s)])
IsIntText(s, n) ==
    IF s # <<>> /\ s[1] = "-"
    THEN IsNumeral(Tail(s)) /\ n = -NumeralValue(Tail(s))
    ELSE IsNumeral(s) /\ n = NumeralValue(s)

\* s is the text of the float h / 2: digits, a point, and 0 or 5
IsHalvesText(s, h) ==
    LET neg == s # <<>> /\ s[1] = "-"
        body == IF neg THEN Tail(s) ELSE s
        n == Len(body)
    IN  /\ n >= 3 /\ body[n - 1] = "." /\ body[n] \in {"0", "5"}
        /\ IsNumeral(SubSeq(body, 1, n - 2))
        /\ LET v == 2 * NumeralValue(SubSeq(body, 1, n - 2))
                    + (IF body[n] = "5" THEN 1 ELSE 0)
           IN  h = IF neg THEN -v ELSE v

Lookup(options, key) ==
    options[CHOOSE i \in 1..Len(options) : options[i][1] = key][2]

\* the one-ring polygon syntax, POLYGON((lon lat,lon lat,...))
IsNumberText(s) ==
    LET body == IF s # <<>> /\ s[1] = "-" THEN Tail(s) ELSE s
    IN  /\ body # <<>>
        /\ \A i \in 1..Len(body) : body[i] \in DigitSet \cup {"."}
        /\ \E i \in 1..Len(body) : body[i] \in DigitSet
RingText(footprint) ==
    IF StartsWith(footprint, <<"P","O","L","Y","G","O","N","(","(">>)
    THEN SubSeq(footprint, 10, Len(footprint) - 2)
    ELSE SubSeq(footprint, 11, Len(footprint) - 2)
IsOneRingPolygon(footprint) ==
    /\ StartsWith(footprint, <<"P","O","L","Y","G","O","N","(","(">>) \/ StartsWith(footprint, <<"P","O","L","Y","G","O","N"," ","(","(">>)
    /\ EndsWith(footprint, <<")",")">>)
    /\ LET pairs == split(RingText(footprint), <<",">>)
       IN  \A k \in 1..Len(pairs) :
              LET xy == split(pairs[k], <<" ">>)
              IN  Len(xy) = 2 /\ IsNumberText(xy[1]) /\ IsNumberText(xy[2])
RingCoordinates(footprint) ==
    LET pairs == split(RingText(footprint), <<",">>)
    IN  join(<<" ">>, [k \in 1..Len(pairs) |->
                        LET xy == split(pairs[k], <<" ">>)
                        IN  xy[1] \o <<",">> \o xy[2] \o <<",","0">>])

\* the GETs of the current invocation, by the call site that issued them
Kinds == [i \in 1..Len(http) |-> http[i].kind]
IsBody(r) == r.kind = "body"
IsChecksum(r) == r.kind = "checksum"
IsSearch(r) == r.kind = "search"
BodyGets == Len(SelectSeq(http, IsBody))
ChecksumGets == Len(SelectSeq(http, IsChecksum))
SearchGets == Len(SelectSeq(http, IsSearch))

\* the lines print() wrote on standard error, and the bytes of a body response
IsPrinted(w) == w.writer = "print"
Warnings == SelectSeq(stderr, IsPrinted)
Received(r) == concat_all(r.chunks)

DownloadCalled == path # NoValue
DownloadReturned == ret # NoValue
\* the server's checksum and the digest of the local file disagree
Mismatch ==
    /\ DownloadReturned
    /\ ~EqualIgnoringCase(hexdigest(fs[path]), resp.checksum[1])
AfterEarlierCall ==
    /\ DownloadCalled /\ last_call # NoCall /\ last_call.path = path

----------------------------------------------------------------------------
(* C1 *)

\* C1: a download() call that finds the target file present issues no body
\* GET and leaves the file system as it found it; and a call that follows an
\* earlier call which returned the same path returns that path again without
\* a body GET, whether or not the earlier call reported a checksum mismatch.
C1_DownloadIdempotent ==
    /\ (DownloadCalled /\ existed) =>
          /\ BodyGets = 0 /\ resp.body = <<>>
          /\ fs = fs_at_call
    /\ (DownloadReturned /\ AfterEarlierCall /\ last_call.ret # NoValue) =>
          /\ ret = last_call.ret
          /\ existed /\ BodyGets = 0 /\ resp.body = <<>>
          /\ fs = fs_at_call

C1_Witness ==
    /\ DownloadReturned /\ AfterEarlierCall
    /\ last_call.ret = ret /\ last_call.warned
    /\ existed /\ Kinds = <<"search", "checksum">>

----------------------------------------------------------------------------
(* C2 *)

\* C2: when download() returns and the digest of the local file differs, up to
\* letter case, from the checksum the server sent, standard error holds exactly
\* one printed line, its last item (the others are the operations of the
\* progress bars), which contains the file name, the expected and the actual
\* hex strings; the path is returned; the file is still there with the content
\* it had, and no further GET was issued (no retry, no second download).
C2_MismatchWarnsOnce ==
    Mismatch =>
        /\ Len(Warnings) = 1
        /\ stderr[Len(stderr)] = Warnings[1]
        /\ "\n" \notin Range(Warnings[1].text)
        /\ Contains(Warnings[1].text, DropFirst(path, 2))
        /\ ContainsIgnoringCase(Warnings[1].text, resp.checksum[1])
        /\ Contains(Warnings[1].text, hexdigest(fs[path]))
        /\ \A i \in 1..(Len(stderr) - 1) :
              /\ stderr[i].writer = "tqdm"
              /\ ~ContainsIgnoringCase(stderr[i].text, resp.checksum[1])
        /\ ret = path /\ StartsWith(path, <<".","/">>)
        /\ path \in DOMAIN fs
        /\ fs[path] = IF existed THEN fs_at_call[path] ELSE Received(resp.body[1])
        /\ ChecksumGets = 1 /\ http[Len(http)].kind = "checksum"
        /\ BodyGets = IF existed THEN 0 ELSE 1
        /\ pc = "done" /\ error = NoError

C2_Witness ==
    /\ Mismatch
    /\ Len(Warnings) = 1 /\ Len(stderr) = 7
    /\ resp.checksum[1] = <<"1","8","7","E","F","4","4","3","6","1","2","2","D","1","C","C","2","F","4","0","D","C","2","B","9","2","F","0","E","B","A","0">>
    /\ fs[path] = TruncatedContent

----------------------------------------------------------------------------
(* C3 *)

SearchFailed == resp.search # <<>> /\ resp.search[1].status # 200

\* C3: once the search response has a status other than 200, the process has
\* exited: its only output is the line with the status code, the search GET is
\* the only HTTP call, the body was not parsed, there is no ProductList, and no
\* product was listed, rendered or downloaded.
C3_SearchFailureIsFatal ==
    SearchFailed =>
        /\ pc = "exited"
        /\ Kinds = <<"search">>
        /\ resp.search[1].document = <<>>
        /\ products = NoList /\ prod = NoProduct
        /\ path = NoValue /\ ret = NoValue
        /\ Len(stdout) = 1
        /\ \E k \in 1..Len(stdout[1]) :
              IsIntText(DropFirst(stdout[1], k), resp.search[1].status)
        /\ stderr = <<>> /\ error = NoError
        /\ resp.body = <<>> /\ resp.checksum = <<>>

C3_Witness ==
    /\ SearchFailed /\ resp.search[1].status = 401
    /\ pc = "exited" /\ args.mode = "download"
    /\ stdout = << <<"E","r","r","o","r",","," ","g","o","t"," ","H","T","T","P"," ","s","t","a","t","u","s"," ","c","o","d","e",":"," ","4","0","1">> >>

----------------------------------------------------------------------------
(* C4 *)

UrlApplied == fn = "request_url"

HasBaseUrl ==
    StartsWith(fn_out, <<"h","t","t","p","s",":","/","/","s","c","i","h","u","b",".","c","o","p","e","r","n","i","c","u","s",".","e","u","/","d","h","u","s","/","s","e","a","r","c","h","?","s","t","a","r","t","=","0","&","r","o","w","s","=","1","0","0","&","q","=">>)
SplitsIntoItems ==
    split(unquote(QueryPortion(fn_out)), <<" ","A","N","D"," ">>) = Items(fn_arg)
RoundTrips == HasBaseUrl /\ SplitsIntoItems

\* C4 as stated: for every options mapping the URL is the base URL followed by
\* a query portion that decodes and splits on " AND " into the key:value items.
C4_Original == UrlApplied => RoundTrips

\* the mappings whose items the separator keeps apart: at least one item, no
\* " AND " inside a key or a value, and no value but the last ending in
\* " AND" (which, with the blank that begins the separator, reads " AND "
\* four characters early)
Separable(options) ==
    /\ Len(options) >= 1
    /\ \A i \in 1..Len(options) :
          /\ ~Contains(options[i][1], <<" ","A","N","D"," ">>)
          /\ ~Contains(options[i][2], <<" ","A","N","D"," ">>)
    /\ \A i \in 1..(Len(options) - 1) : ~EndsWith(options[i][2], <<" ","A","N","D">>)

\* C4 (amended): for every options mapping the URL is the base URL followed
\* by the query portion, and the query portion, percent-decoded and split on
\* " AND ", is the list of key:value items in iteration order exactly when
\* the mapping is non-empty, no key or value contains " AND ", and no value
\* other than the last ends with " AND".
C4_QueryRoundTrip ==
    UrlApplied => (HasBaseUrl /\ (SplitsIntoItems <=> Separable(fn_arg)))

C4_Witness ==
    /\ UrlApplied /\ Separable(fn_arg) /\ RoundTrips
    /\ Len(fn_arg) = 2
    /\ fn_arg[1][2] = <<"\"","I","n","t","e","r","s","e","c","t","s","(","P","O","L","Y","G","O","N","(","(","1","0",".","0"," ","6","7",".","0",","," ","2","0",".","0"," ","6","7",".","0",")",")",")","\"">>
    /\ fn_arg[2][2] = <<"5","0","%","&","q","=","#","/","~","%","4","1">>

----------------------------------------------------------------------------
(* C5 *)

EntryIndexes(document) ==
    {i \in 1..Len(document) : document[i].tag = "atom:entry"}
NthEntry(document, k) ==
    document[CHOOSE i \in EntryIndexes(document) :
                Cardinality({j \in EntryIndexes(document) : j <= i}) = k]
NamedChildren(entry) ==
    {j \in 1..Len(entry.children) : entry.children[j].name # NoName}
LacksIdOrLink(entry) ==
    LET Links == {j \in 1..Len(entry.children) : entry.children[j].tag = "atom:link"}
    IN  \/ \A j \in 1..Len(entry.children) : entry.children[j].tag # "atom:id"
        \/ Links = {}
        \/ entry.children[CHOOSE j \in Links : \A l \in Links : j <= l].href = NoValue
Parsed == products # NoList
ReceivedDocument == resp.search[1].document

\* C5: the ProductList has one Product per entry element of the document, in
\* document order; a Product's attributes are exactly the named children of its
\* entry (each name with the text of the last child carrying it); parsing
\* raises only for an entry without id or link, never for a missing attribute
\* key, and a KeyError for such a key is raised by name(), download() or
\* to_kml(), after parsing succeeded.
C5_ParseOnePerEntry ==
    /\ Parsed =>
          /\ Len(products.list) = Cardinality(EntryIndexes(ReceivedDocument))
          /\ \A k \in 1..Len(products.list) :
                LET e == NthEntry(ReceivedDocument, k)
                    a == products.list[k].attributes
                IN  /\ DOMAIN a = {e.children[j].name : j \in NamedChildren(e)}
                    /\ \A j \in NamedChildren(e) :
                          (\A l \in NamedChildren(e) :
                              e.children[l].name = e.children[j].name => l <= j)
                          => a[e.children[j].name] = e.children[j].text
                    /\ ~LacksIdOrLink(e)
    /\ (error # NoError /\ error.at = "Product.__init__") =>
          \E i \in EntryIndexes(ReceivedDocument) : LacksIdOrLink(ReceivedDocument[i])
    /\ (error # NoError /\ error.at = "name") =>
          /\ Parsed /\ args.mode = "list"
          /\ \E k \in 1..Len(products.list) :
                "identifier" \notin DOMAIN products.list[k].attributes
    /\ (error # NoError /\ error.at = "download: filename") =>
          /\ Parsed /\ args.mode = "download"
          /\ "filename" \notin DOMAIN prod.attributes
    /\ (error # NoError /\ error.at = "to_kml" /\ error.type = "KeyError") =>
          /\ Parsed /\ args.mode = "kml"
          /\ \E k \in 1..Len(products.list), key \in Range(KmlKeys) :
                key \notin DOMAIN products.list[k].attributes

C5_Witness ==
    /\ Parsed /\ Len(products.list) = 2
    /\ "identifier" \in DOMAIN products.list[1].attributes
    /\ products.list[1].attributes["identifier"] = <<"S","1","A","_","T","E","S","T","_","2">>
    /\ DOMAIN products.list[2].attributes = {}
    /\ error # NoError /\ error.at = "name"
    /\ stdout = << <<"S","1","A","_","T","E","S","T","_","2">> >>

----------------------------------------------------------------------------
(* C6 *)

SuffixRewritten(filename) ==
    IF EndsWith(filename, <<".","S","A","F","E">>)
    THEN SubSeq(filename, 1, Len(filename) - 5) \o <<".","z","i","p">>
    ELSE filename

\* C6: for every filename attribute the download path is the destination
\* directory, "/", and the filename with only a trailing .SAFE rewritten to
\* .zip, the rest of the name unchanged.
C6_TargetName ==
    fn = "download_path" =>
        fn_out = fn_arg.destination_path \o <<"/">> \o SuffixRewritten(fn_arg.filename)

----------------------------------------------------------------------------
(* C7 *)

\* C7: rendering a footprint of the one-ring polygon syntax gives its pairs as
\* "lon,lat,0" joined by single spaces, in order; rendering any other
\* footprint fails.
C7_RingCoordinates ==
    fn = "coordinates" =>
        IF IsOneRingPolygon(fn_arg)
        THEN fn_out = RingCoordinates(fn_arg)
        ELSE fn_out = AttributeError

----------------------------------------------------------------------------
(* C8 *)

PositionApplied == fn = "search_position"

Vertex(text, lon, lat) ==
    LET xy == split(text, <<" ">>)
    IN  Len(xy) = 2 /\ IsHalvesText(xy[1], lon) /\ IsHalvesText(xy[2], lat)

\* C8: search_position builds an options mapping of exactly the three keys
\* ingestiondate, footprint and productType; the footprint is
\* "Intersects(POLYGON((...)))" whose ring lists, lon before lat, the corners
\* (lon-5,lat+5), (lon+5,lat+5), (lon+5,lat-5), (lon-5,lat-5) and the first
\* corner again; ingestiondate is [NOW-dDAYS TO NOW], d being 7 when
\* days_back is left out; productType is GRD.
C8_PositionOptions ==
    PositionApplied =>
        LET lat == fn_arg.lat
            lon == fn_arg.lon
            d == IF fn_arg.days = <<>> THEN 7 ELSE fn_arg.days[1]
            keys == {fn_out[i][1] : i \in 1..Len(fn_out)}
            date == Lookup(fn_out, <<"i","n","g","e","s","t","i","o","n","d","a","t","e">>)
            foot == Lookup(fn_out, <<"f","o","o","t","p","r","i","n","t">>)
            ring == split(SubSeq(foot, 22, Len(foot) - 4), <<","," ">>)
        IN  /\ Len(fn_out) = 3
            /\ keys = { <<"i","n","g","e","s","t","i","o","n","d","a","t","e">>, <<"f","o","o","t","p","r","i","n","t">>, <<"p","r","o","d","u","c","t","T","y","p","e">> }
            /\ Lookup(fn_out, <<"p","r","o","d","u","c","t","T","y","p","e">>) = <<"G","R","D">>
            /\ StartsWith(date, <<"[","N","O","W","-">>) /\ EndsWith(date, <<"D","A","Y","S"," ","T","O"," ","N","O","W","]">>)
            /\ IsIntText(SubSeq(date, 6, Len(date) - 12), d)
            /\ StartsWith(foot, <<"\"","I","n","t","e","r","s","e","c","t","s","(","P","O","L","Y","G","O","N","(","(">>) /\ EndsWith(foot, <<")",")",")","\"">>)
            /\ Len(ring) = 5
            /\ Vertex(ring[1], lon - 10, lat + 10)
            /\ Vertex(ring[2], lon + 10, lat + 10)
            /\ Vertex(ring[3], lon + 10, lat - 10)
            /\ Vertex(ring[4], lon - 10, lat - 10)
            /\ ring[5] = ring[1]

C8_Witness ==
    /\ PositionApplied
    /\ fn_arg = [lat |-> 124, lon |-> 30, days |-> <<>>]
    /\ fn_out = << << <<"i","n","g","e","s","t","i","o","n","d","a","t","e">>, <<"[","N","O","W","-","7","D","A","Y","S"," ","T","O"," ","N","O","W","]">> >>,
                   << <<"f","o","o","t","p","r","i","n","t">>, <<"\"","I","n","t","e","r","s","e","c","t","s","(","P","O","L","Y","G","O","N","(","(","1","0",".","0"," ","6","7",".","0",","," ","2","0",".","0"," ","6","7",".","0",","," ","2","0",".","0"," ","5","7",".","0",","," ","1","0",".","0"," ","5","7",".","0",","," ","1","0",".","0"," ","6","7",".","0",")",")",")","\"">> >>,
                   << <<"p","r","o","d","u","c","t","T","y","p","e">>, <<"G","R","D">> >> >>

----------------------------------------------------------------------------
(* C9 *)

\* a request is outstanding until its response is in, the body request until
\* its body has ended or broken off
Waiting == pc \in {"search", "body", "stream", "checksum"}
Responses ==
    Len(resp.search) + Len(resp.checksum)
    + (IF resp.body # <<>> /\ pc # "stream" THEN 1 ELSE 0)

\* a download() call has been entered once main() has picked the product and
\* line 47 has run; it has ended when the process is done or has raised
DownloadEntered == prod # NoProduct /\ pc # "download"
DownloadEnded == DownloadEntered /\ pc \in {"done", "raised"}

C9_ChecksumOnEveryCall == DownloadEnded => ChecksumGets = 1
C9_TwoGetsWhenAbsent ==
    (DownloadEnded /\ ChecksumGets = 1) =>
        Len(http) - SearchGets - ChecksumGets = IF existed THEN 0 ELSE 2

\* C9 as stated: every download() call issued one checksum GET, with two GETs
\* before it when the file was absent and none when it was present.
C9_Original == C9_ChecksumOnEveryCall /\ C9_TwoGetsWhenAbsent

\* C9 (amended): every download() call issues exactly one checksum GET,
\* whether or not the file was present and only after the target file exists,
\* unless an exception ends the call before that point (no filename
\* attribute, no content-length header, connection broken while the body
\* streams), and then it issues none; it issues one GET, the body fetch,
\* before the checksum GET exactly when the file was absent.  An invocation
\* (in list, render or download mode) issues one search GET first, none
\* further unless it downloads, at most three further GETs when it does, and
\* never has more than one request outstanding.
C9_CallSequence ==
    /\ DownloadEnded =>
          IF error = NoError
          THEN Kinds = <<"search">> \o (IF existed THEN <<>> ELSE <<"body">>)
                       \o <<"checksum">>
          ELSE /\ error.at \in {"download: filename", "download: content-length",
                                "download: iter_content"}
               /\ ChecksumGets = 0
               /\ Kinds = <<"search">> \o (IF error.at = "download: filename"
                                           THEN <<>> ELSE <<"body">>)
    /\ ChecksumGets <= 1
    /\ ChecksumGets = 1 => path \in DOMAIN fs
    /\ DownloadCalled => BodyGets = IF existed THEN 0 ELSE 1
    /\ (args # NoArguments /\ args.mode # "none") => (SearchGets = 1 /\ http[1].kind = "search")
    /\ (args # NoArguments /\ args.mode # "download") => Len(http) <= 1
    /\ Len(http) - SearchGets <= 3
    /\ Len(http) = Responses + (IF Waiting THEN 1 ELSE 0)

C9_Witness ==
    /\ DownloadReturned /\ ~existed
    /\ Kinds = <<"search", "body", "checksum">>
    /\ Responses = 3

----------------------------------------------------------------------------
(* C10 *)

\* the file a body fetch leaves: empty until the body has ended or broken off
\* (the bytes are in the buffer of the open file), then the bytes received
WrittenBy(r) ==
    IF r.state \in {"exhausted", "broken"} THEN Received(r) ELSE EmptyContent

\* C10: the status of the body response is never examined: whatever it is,
\* once the response is in a file exists at the target path, and when the body
\* has ended or broken off it holds the bytes received; the file stays as
\* that fetch left it, so every later download() call for the path finds it,
\* issues no body GET and changes nothing, and a call that returns warns
\* exactly when the digest of the file differs from the checksum sent, each
\* time anew.
C10_FailedFetchLeavesFile ==
    /\ resp.body # <<>> =>
          /\ pc \in {"stream", "checksum", "done", "raised"}
          /\ pc = "raised" =>
                error.at \in {"download: content-length", "download: iter_content"}
          /\ path \in DOMAIN fs /\ path \in DOMAIN origin
          /\ origin[path] = resp.body[1]
    /\ \A p \in DOMAIN origin : p \in DOMAIN fs /\ fs[p] = WrittenBy(origin[p])
    /\ (DownloadCalled /\ existed /\ path \in DOMAIN origin) =>
          /\ BodyGets = 0 /\ resp.body = <<>> /\ fs = fs_at_call
          /\ pc \in {"checksum", "done"}
    /\ DownloadReturned =>
          /\ Len(Warnings) <= 1
          /\ Len(Warnings) = 1 <=> ~EqualIgnoringCase(hexdigest(fs[path]), resp.checksum[1])

C10_Witness ==
    /\ DownloadReturned /\ existed /\ AfterEarlierCall /\ last_call.warned
    /\ path \in DOMAIN origin /\ origin[path].status = 500
    /\ origin[path].state = "exhausted"
    /\ fs[path] = TruncatedContent
    /\ Len(Warnings) = 1 /\ BodyGets = 0
====
